---- MODULE Spec2Model ----
(***************************************************************************)
(* State-machine model of the NVDA global plugin scintillaIMECaretFix      *)
(* (addon/globalPlugins/scintillaIMECaretFix/__init__.py).                 *)
(*                                                                         *)
(* The plugin runs on one event-loop thread.  Every callback of the        *)
(* plugin is one action: the gesture filter (_onGesture), the poll tick    *)
(* (_pollCompositionChanges), the two deferred announcement callbacks      *)
(* (_announceCharacter via wx.CallAfter, _doAnnounce via wx.CallLater)     *)
(* and terminate.  The host (focus, composition object, composition        *)
(* string, its own default feedback, the passing of time) is the           *)
(* environment.                                                            *)
(***************************************************************************)
EXTENDS Integers, Sequences, FiniteSets, TLC

(***************************************************************************)
(* Bounds of the model.                                                    *)
(***************************************************************************)
\* longest composition string the host produces
MaxLen == 2
\* most announcements in flight (queued by wx.CallAfter or waiting in wx.CallLater)
MaxInFlight == 1
\* wx timer identities available to the poller
MaxTimers == 2

(***************************************************************************)
(* Program constants.                                                      *)
(***************************************************************************)
\* virtual key codes tested by the gesture filter
VK_LEFT == 37
VK_RIGHT == 39
\* some other virtual key code (the letter A)
VK_OTHER == 65
\* delay of the deferred announcement, wx.CallLater(150, ...)
AnnounceDelay == 150
\* the host's own caret feedback follows the key event by at most this much
HostLatencyMax == 30

(***************************************************************************)
(* Values.                                                                 *)
(***************************************************************************)
\* the character the host's composition holds at index i (1-based): the
\* composition grows and shrinks at its end, neighbours differ
WordChar(i) == IF i % 2 = 1 THEN "a" ELSE "b"

\* the composition strings the host produces: "", "a", "ab", ...
Texts == {[i \in 1..n |-> WordChar(i)] : n \in 0..MaxLen}

\* identities of composition objects, id(compObj); NoComp: no composition
\* object in the focus's parent chain / self._lastCompObjId = None
CompIds == {"c1", "c2"}
NoComp == "None"

\* what api.getFocusObject() returns: nothing, a non-Scintilla window, a
\* Scintilla window
FocusKinds == {"none", "other", "scintilla"}

NoChar == "None"
NoText == <<"None">>
NoAttr == -1
NoTimer == 0
TimerIds == 1..MaxTimers

\* gestures: vk is gesture.vkCode (NoAttr: the gesture has no such
\* attribute), name is gesture.mainKeyName (NoChar: no such attribute)
Gestures ==
    { [vk |-> VK_LEFT,  name |-> "leftArrow"],
      [vk |-> VK_RIGHT, name |-> "rightArrow"],
      [vk |-> VK_OTHER, name |-> "a"],
      [vk |-> NoAttr,   name |-> "leftArrow"],
      [vk |-> NoAttr,   name |-> "rightArrow"],
      [vk |-> NoAttr,   name |-> "a"],
      [vk |-> NoAttr,   name |-> NoChar] }

Min(S) == CHOOSE x \in S : \A y \in S : x <= y

VARIABLES
    \* ---- host (environment) ----
    hostFocus,              \* kind of the focus object
    hostCompObj,            \* identity of the composition object, or NoComp
    hostCompString,         \* compObj.compositionString
    \* ---- plugin instance (GlobalPlugin.__init__) ----
    compositionString,      \* self._compositionString
    cursorPos,              \* self._cursorPos
    lastCompObjId,          \* self._lastCompObjId
    pollTimer,              \* self._pollTimer: NoTimer or a timer id
    lastPolledComposition,  \* self._lastPolledComposition
    isMonitoring,           \* self._isMonitoring
    registered,             \* _onGesture is registered with decide_executeGesture
    \* ---- event loop ----
    pollPending,            \* ids of the poll timers that are registered and not yet fired
    callAfterQueue,         \* wx.CallAfter(_announceCharacter, ...) calls not yet run
    callLater,              \* wx.CallLater(150, _doAnnounce, char) timers not yet fired
    \* ---- what the callback that has just run did; "idle" between callbacks ----
    last

hostVars == <<hostFocus, hostCompObj, hostCompString>>
cursorVars == <<compositionString, cursorPos, lastCompObjId>>
pollVars == <<pollTimer, lastPolledComposition, isMonitoring, pollPending>>
vars == <<hostFocus, hostCompObj, hostCompString, compositionString, cursorPos,
          lastCompObjId, pollTimer, lastPolledComposition, isMonitoring,
          registered, pollPending, callAfterQueue, callLater, last>>

\* the observation of a callback: which one ran (op), how it ended (outcome),
\* the arrow direction it saw (dir), what it returned to the host (ret),
\* whether it reset the stored session and why (reset), what it sent to the
\* braille display and to speech, whether the host's own feedback for the
\* same key was still outstanding when it spoke, and which of the pending
\* wx.CallLater timers it was the callback of (idx, oldest first)
Obs(op, outcome, dir) ==
    [op |-> op, outcome |-> outcome, dir |-> dir, ret |-> TRUE,
     reset |-> "no", braille |-> NoText, spoke |-> NoChar, beforeHost |-> FALSE,
     idx |-> 0]

\* the event loop is between callbacks
Idle == Obs("idle", "none", 0)

(***************************************************************************)
(* Pure helpers of the module.                                             *)
(***************************************************************************)
\* isScintillaWindow(obj): False for no object, else "Scintilla" in the
\* window class name
isScintillaWindow(focus) == focus = "scintilla"

\* getInputCompositionObject(focus): the InputComposition on the focus's
\* parent chain, or None
getInputCompositionObject(focus) ==
    IF focus = "scintilla" THEN hostCompObj ELSE NoComp

\* `focus and isScintillaWindow(focus)` followed by
\* `compObj and hasattr(compObj, 'compositionString') and compObj.compositionString`
HasComposition(focus) ==
    /\ focus # "none"
    /\ isScintillaWindow(focus)
    /\ getInputCompositionObject(focus) # NoComp
    /\ hostCompString # <<>>

\* arrowDirection of a gesture: -1 left, +1 right, 0 otherwise; the
\* mainKeyName is consulted only when the gesture has no vkCode
ArrowDirection(g) ==
    IF g.vk # NoAttr
    THEN (IF g.vk = VK_LEFT THEN -1 ELSE IF g.vk = VK_RIGHT THEN 1 ELSE 0)
    ELSE IF g.name # NoChar
         THEN (IF g.name = "leftArrow" THEN -1
               ELSE IF g.name = "rightArrow" THEN 1 ELSE 0)
         ELSE 0

\* a reconciliation that compares the content only
IsNewCompositionByContent(compObjId, compString) ==
    compString # compositionString

\* a reconciliation that takes every step event for a new composition
IsNewCompositionAlways(compObjId, compString) == TRUE

\* `compObjId != self._lastCompObjId or compString != self._compositionString`
IsNewComposition(compObjId, compString) ==
    \/ compObjId # lastCompObjId
    \/ compString # compositionString

\* the offset the move starts from: len(compString) after a reset
BasePos(compObjId, compString) ==
    IF IsNewComposition(compObjId, compString) THEN Len(compString) ELSE cursorPos

\* a move with the direction's sign flipped
NewPosFlipped(pos, direction) == pos - direction

\* newPos = self._cursorPos + arrowDirection
NewPos(pos, direction) == pos + direction

\* a range test that is off by one at the upper end
InRangeOffByOne(newPos, compString) == 0 <= newPos /\ newPos <= Len(compString) + 1

\* a range test that forgets the lower end
InRangeNoLower(newPos, compString) == newPos <= Len(compString)

\* `0 <= newPos <= len(compString)`
InRange(newPos, compString) == 0 <= newPos /\ newPos <= Len(compString)

\* a resolution that reads the character at the cursor for both directions
CharForAtCursor(compString, pos, direction) ==
    IF compString = <<>> THEN NoChar
    ELSE IF 0 <= pos /\ pos < Len(compString)
         THEN compString[pos + 1] ELSE NoChar

\* a resolution that reads the stored session and offset when the callback
\* runs, instead of the text and offset it was called with
CharForLive(compString, pos, direction) ==
    IF compositionString = <<>> THEN NoChar
    ELSE IF direction < 0
         THEN (IF 0 <= cursorPos /\ cursorPos < Len(compositionString)
               THEN compositionString[cursorPos + 1] ELSE NoChar)
         ELSE (IF 0 <= cursorPos - 1 /\ cursorPos - 1 < Len(compositionString)
               THEN compositionString[cursorPos] ELSE NoChar)

\* the character _announceCharacter resolves (Python indexes from 0), or
\* NoChar when it resolves none
CharFor(compString, pos, direction) ==
    IF compString = <<>> THEN NoChar
    ELSE IF direction < 0
         THEN (IF 0 <= pos /\ pos < Len(compString)
               THEN compString[pos + 1] ELSE NoChar)
         ELSE (IF 0 <= pos - 1 /\ pos - 1 < Len(compString)
               THEN compString[pos] ELSE NoChar)

\* a handler whose `return True` sits inside the try block: a fault falls
\* through the except clause and the handler returns None
GestureReturnInsideTry(fault) == fault = "none"

\* what _onGesture returns to the host: `return True` after the try block
GestureReturn(fault) == TRUE

(***************************************************************************)
(* The poller's state as a value, and the two operations on it.            *)
(***************************************************************************)
PollState ==
    [pollTimer |-> pollTimer, isMonitoring |-> isMonitoring,
     lastPolled |-> lastPolledComposition, pending |-> pollPending]

\* wx.CallLater(50, self._pollCompositionChanges): a new timer registration.
\* The length of the poll delay is not tracked: a registered tick fires at any
\* later turn of the event loop.
NewTimer(pending) == Min(TimerIds \ pending)

\* a start that seeds the last content seen with the current content
StartCompositionPollingSeeded(p) ==
    IF p.pollTimer = NoTimer
    THEN [p EXCEPT !.pollTimer = NewTimer(p.pending),
                   !.pending = @ \cup {NewTimer(p.pending)},
                   !.isMonitoring = TRUE,
                   !.lastPolled = hostCompString]
    ELSE p

\* a start that creates the timer and forgets to raise the monitoring flag
StartCompositionPollingNoFlag(p) ==
    IF p.pollTimer = NoTimer
    THEN [p EXCEPT !.pollTimer = NewTimer(p.pending),
                   !.pending = @ \cup {NewTimer(p.pending)}]
    ELSE p

\* _startCompositionPolling
StartCompositionPolling(p) ==
    IF p.pollTimer = NoTimer
    THEN [p EXCEPT !.pollTimer = NewTimer(p.pending),
                   !.pending = @ \cup {NewTimer(p.pending)},
                   !.isMonitoring = TRUE]
    ELSE p

\* a stop that leaves the last content seen in place
StopCompositionPollingKeepsContent(p) ==
    [pollTimer |-> NoTimer,
     pending |-> IF p.pollTimer # NoTimer THEN p.pending \ {p.pollTimer} ELSE p.pending,
     isMonitoring |-> FALSE,
     lastPolled |-> p.lastPolled]

\* a stop that cancels the timer and keeps the reference to it
StopCompositionPollingKeepsTimer(p) ==
    [pollTimer |-> p.pollTimer,
     pending |-> IF p.pollTimer # NoTimer THEN p.pending \ {p.pollTimer} ELSE p.pending,
     isMonitoring |-> FALSE,
     lastPolled |-> <<>>]

\* a stop that drops the reference to the timer without cancelling it
StopCompositionPollingNoCancel(p) ==
    [pollTimer |-> NoTimer,
     pending |-> p.pending,
     isMonitoring |-> FALSE,
     lastPolled |-> <<>>]

\* _stopCompositionPolling
StopCompositionPolling(p) ==
    [pollTimer |-> NoTimer,
     pending |-> IF p.pollTimer # NoTimer THEN p.pending \ {p.pollTimer} ELSE p.pending,
     isMonitoring |-> FALSE,
     lastPolled |-> <<>>]

\* the tick's reschedule, self._pollTimer = wx.CallLater(50, ...)
ReschedulePoll(p) ==
    [p EXCEPT !.pollTimer = NewTimer(p.pending),
              !.pending = @ \cup {NewTimer(p.pending)}]

SetPoll(p) ==
    /\ pollTimer' = p.pollTimer
    /\ isMonitoring' = p.isMonitoring
    /\ lastPolledComposition' = p.lastPolled
    /\ pollPending' = p.pending

(***************************************************************************)
(* Initial state: GlobalPlugin.__init__ has run, the host is anywhere.     *)
(***************************************************************************)
HostStates ==
    { h \in [focus : FocusKinds, comp : CompIds \cup {NoComp}, text : Texts] :
        /\ h.focus # "scintilla" => h.comp = NoComp
        /\ h.comp = NoComp => h.text = <<>> }

Init ==
    /\ \E h \in HostStates :
         /\ hostFocus = h.focus
         /\ hostCompObj = h.comp
         /\ hostCompString = h.text
    /\ compositionString = <<>>
    /\ cursorPos = 0
    /\ lastCompObjId = NoComp
    /\ pollTimer = NoTimer
    /\ lastPolledComposition = <<>>
    /\ isMonitoring = FALSE
    /\ registered = TRUE
    /\ pollPending = {}
    /\ callAfterQueue = <<>>
    /\ callLater = <<>>
    /\ last = Idle

(***************************************************************************)
(* Host actions.                                                           *)
(***************************************************************************)
\* the focus moves, or the composition under a Scintilla focus starts,
\* changes or ends
HostChange ==
    /\ last = Idle
    /\ \E h \in HostStates :
         /\ <<h.focus, h.comp, h.text>> # <<hostFocus, hostCompObj, hostCompString>>
         /\ hostFocus' = h.focus
         /\ hostCompObj' = h.comp
         /\ hostCompString' = h.text
    /\ UNCHANGED <<cursorVars, pollVars, registered, callAfterQueue, callLater, last>>

\* the host emits its own default feedback for the key event of an
\* announcement still in flight
HostFeedback ==
    /\ last = Idle
    /\ \/ \E i \in 1..Len(callAfterQueue) :
            /\ callAfterQueue[i].hostAge >= 0
            /\ callAfterQueue' = [callAfterQueue EXCEPT ![i].hostAge = -1]
            /\ UNCHANGED callLater
       \/ \E i \in 1..Len(callLater) :
            /\ callLater[i].hostAge >= 0
            /\ callLater' = [callLater EXCEPT ![i].hostAge = -1]
            /\ UNCHANGED callAfterQueue
    /\ UNCHANGED <<hostVars, cursorVars, pollVars, registered, last>>

\* time passes, up to the next deadline: a wx.CallLater timer becoming due, or
\* the latest moment of a host feedback
HostAges ==
    {callAfterQueue[i].hostAge : i \in 1..Len(callAfterQueue)}
      \cup {callLater[i].hostAge : i \in 1..Len(callLater)}

Deadlines ==
    {callLater[i].rem : i \in 1..Len(callLater)}
      \cup {HostLatencyMax - a : a \in HostAges \ {-1}}

Elapse(item, d) ==
    IF item.hostAge >= 0 THEN [item EXCEPT !.hostAge = @ + d] ELSE item

Advance ==
    /\ last = Idle
    /\ Deadlines \ {0} # {}
    /\ \A a \in HostAges : a < HostLatencyMax
    /\ LET d == Min(Deadlines \ {0}) IN
         /\ callAfterQueue' = [i \in 1..Len(callAfterQueue) |->
                                 Elapse(callAfterQueue[i], d)]
         /\ callLater' = [i \in 1..Len(callLater) |->
                            Elapse([callLater[i] EXCEPT
                                      !.rem = IF @ > d THEN @ - d ELSE 0], d)]
    /\ UNCHANGED <<hostVars, cursorVars, pollVars, registered, last>>

(***************************************************************************)
(* _onGesture: the gesture filter, called by the host for every key event. *)
(* fault names the host lookup that raises inside the try block: the first *)
(* focus/composition lookup, the gesture's attributes, or the second       *)
(* lookup (reached by arrow keys only); the exception skips the rest of    *)
(* the block.                                                              *)
(***************************************************************************)
GestureFaults == {"none", "lookup1", "classify", "lookup2"}

\* the key events the host delivers: every gesture without a fault, and each
\* fault on a left and on a right arrow key press
GestureInputs ==
    {<<g, "none">> : g \in Gestures}
      \cup {<<g, f>> : g \in {h \in Gestures : h.vk \in {VK_LEFT, VK_RIGHT}},
                       f \in GestureFaults \ {"none"}}

\* a first block that starts the poller on any Scintilla focus, with or
\* without a composition
PollAfterGestureAnyScintilla(fault) ==
    IF fault # "lookup1" /\ isScintillaWindow(hostFocus) /\ ~isMonitoring
    THEN StartCompositionPolling(PollState)
    ELSE PollState

\* the poller after the first block of the handler: started when the focus
\* qualifies and the plugin is not monitoring
PollAfterGesture(fault) ==
    IF fault # "lookup1" /\ HasComposition(hostFocus) /\ ~isMonitoring
    THEN StartCompositionPolling(PollState)
    ELSE PollState

\* the handler reaches the reconciliation and the move
ReachesMove(g, fault) ==
    /\ fault = "none"
    /\ ArrowDirection(g) # 0
    /\ HasComposition(hostFocus)

\* the move succeeds
MoveSucceeds(g, fault) ==
    /\ ReachesMove(g, fault)
    /\ InRange(NewPos(BasePos(hostCompObj, hostCompString), ArrowDirection(g)),
               hostCompString)

GestureOutcome(g, fault) ==
    IF fault # "none" THEN fault
    ELSE IF ArrowDirection(g) = 0 THEN "nonstep"
    ELSE IF ~HasComposition(hostFocus) THEN "miss"
    ELSE IF MoveSucceeds(g, fault) THEN "moved"
    ELSE "boundary"

\* wx.CallAfter(self._announceCharacter, compString, self._cursorPos, arrowDirection);
\* hostAge is the time since the key event while the host's own feedback for
\* it is outstanding
ScheduleAnnouncement(queue, compString, pos, direction) ==
    Append(queue, [compString |-> compString, cursorPos |-> pos,
                   direction |-> direction, hostAge |-> 0])

\* the stored session and offset after the handler: the reconciliation stores
\* the observed identity and content, the move commits newPos when in range
CursorAfterGesture(g, fault) ==
    IF ReachesMove(g, fault)
    THEN LET compString == hostCompString
             compObjId == hostCompObj
             base == BasePos(compObjId, compString)
             newPos == NewPos(base, ArrowDirection(g))
         IN [compositionString |-> compString,
             lastCompObjId |-> compObjId,
             cursorPos |-> IF InRange(newPos, compString) THEN newPos ELSE base]
    ELSE [compositionString |-> compositionString,
          lastCompObjId |-> lastCompObjId,
          cursorPos |-> cursorPos]

\* a handler that schedules the announcement after the range test instead of
\* inside its branch
QueueAfterGestureUnguarded(g, fault) ==
    IF ReachesMove(g, fault)
    THEN ScheduleAnnouncement(callAfterQueue, hostCompString,
                              CursorAfterGesture(g, fault).cursorPos,
                              ArrowDirection(g))
    ELSE callAfterQueue

\* the wx.CallAfter queue after the handler: the announcement is scheduled
\* inside the `if 0 <= newPos <= len(compString)` branch only
QueueAfterGesture(g, fault) ==
    IF MoveSucceeds(g, fault)
    THEN ScheduleAnnouncement(callAfterQueue, hostCompString,
                              CursorAfterGesture(g, fault).cursorPos,
                              ArrowDirection(g))
    ELSE callAfterQueue

\* why the reconciliation reset the session, if it did
ResetKind(g, fault) ==
    IF ~ReachesMove(g, fault) THEN "no"
    ELSE IF hostCompObj # lastCompObjId THEN "identity"
    ELSE IF hostCompString # compositionString THEN "content"
    ELSE "no"

\* The handler runs while it is registered; the two guards after that keep
\* the announcements in flight and the timer identities within the bounds.
OnGesture(g, fault) ==
    /\ last = Idle
    /\ registered
    /\ fault = "lookup2" => ArrowDirection(g) # 0
    /\ Len(QueueAfterGesture(g, fault)) + Len(callLater) <= MaxInFlight
    /\ pollPending # TimerIds
    /\ SetPoll(PollAfterGesture(fault))
    /\ compositionString' = CursorAfterGesture(g, fault).compositionString
    /\ lastCompObjId' = CursorAfterGesture(g, fault).lastCompObjId
    /\ cursorPos' = CursorAfterGesture(g, fault).cursorPos
    /\ callAfterQueue' = QueueAfterGesture(g, fault)
    /\ last' = [Obs("gesture", GestureOutcome(g, fault),
                    IF fault \in {"lookup1", "classify"} THEN 0 ELSE ArrowDirection(g))
                  EXCEPT !.ret = GestureReturn(fault),
                         !.reset = ResetKind(g, fault)]
    /\ UNCHANGED <<hostVars, registered, callLater>>

(***************************************************************************)
(* _pollCompositionChanges: one tick of the poll timer t.  fault names the *)
(* host call that raises: the focus/composition lookup, or                 *)
(* braille.handler.message.                                                *)
(***************************************************************************)
PollFaults == {"none", "lookup", "braille"}

\* a tick that does not compare with the last content seen
PollChangedAlways(p) == TRUE

\* the tick sees a change: `currentComp != self._lastPolledComposition`
PollChanged(p) == hostCompString # p.lastPolled

PollOutcome(p, fault) ==
    IF fault = "lookup" THEN "lookup"
    ELSE IF ~HasComposition(hostFocus) THEN "stopped"
    ELSE IF ~PollChanged(p) THEN "unchanged"
    ELSE IF fault = "braille" THEN "braille"
    ELSE "emitted"

\* a tick that emits the changed content and forgets to record it
PollAfterTickNoRecord(p, fault) ==
    LET o == PollOutcome(p, fault) IN
    IF o \in {"lookup", "stopped", "braille"} THEN StopCompositionPolling(p)
    ELSE ReschedulePoll(p)

\* a tick whose except clause logs the fault and does nothing else
PollAfterTickFaultIgnored(p, fault) ==
    LET o == PollOutcome(p, fault) IN
    IF o \in {"lookup", "braille"} THEN p
    ELSE IF o = "stopped" THEN StopCompositionPolling(p)
    ELSE IF o = "emitted"
         THEN ReschedulePoll([p EXCEPT !.lastPolled = hostCompString])
         ELSE ReschedulePoll(p)

\* the poller after the body of the tick, p being the poller with the fired
\* timer no longer pending
PollAfterTick(p, fault) ==
    LET o == PollOutcome(p, fault) IN
    IF o \in {"lookup", "stopped", "braille"} THEN StopCompositionPolling(p)
    ELSE IF o = "emitted"
         THEN ReschedulePoll([p EXCEPT !.lastPolled = hostCompString])
         ELSE ReschedulePoll(p)

PollTick(t, fault) ==
    /\ last = Idle
    /\ t \in pollPending
    /\ LET p == [PollState EXCEPT !.pending = @ \ {t}] IN
         /\ fault = "braille" => HasComposition(hostFocus) /\ PollChanged(p)
         /\ SetPoll(PollAfterTick(p, fault))
         /\ last' = [Obs("poll", PollOutcome(p, fault), 0)
                       EXCEPT !.braille = IF PollOutcome(p, fault) = "emitted"
                                          THEN hostCompString ELSE NoText]
    /\ UNCHANGED <<hostVars, cursorVars, registered, callAfterQueue, callLater>>

(***************************************************************************)
(* _announceCharacter: the wx.CallAfter callback at the head of the queue. *)
(***************************************************************************)
\* an announcement deferred by less than the host's latency
ScheduleSpeakEarly(timers, char, hostAge) ==
    Append(timers, [char |-> char, rem |-> HostLatencyMax - 10, hostAge |-> hostAge])

\* wx.CallLater(150, self._doAnnounce, char)
ScheduleSpeak(timers, char, hostAge) ==
    Append(timers, [char |-> char, rem |-> AnnounceDelay, hostAge |-> hostAge])

AnnounceCharacter ==
    /\ last = Idle
    /\ callAfterQueue # <<>>
    /\ LET c == Head(callAfterQueue)
           char == CharFor(c.compString, c.cursorPos, c.direction)
       IN /\ callAfterQueue' = Tail(callAfterQueue)
          /\ callLater' = IF char # NoChar
                          THEN ScheduleSpeak(callLater, char, c.hostAge)
                          ELSE callLater
          /\ last' = Obs("announce", IF char # NoChar THEN "scheduled" ELSE "nochar", 0)
    /\ UNCHANGED <<hostVars, cursorVars, pollVars, registered>>

(***************************************************************************)
(* _doAnnounce: the wx.CallLater callback of a timer that is due.  fault   *)
(* names the output call that raises: speech.cancelSpeech,                 *)
(* speech.speakText or braille.handler.message.                            *)
(***************************************************************************)
AnnounceFaults == {"none", "cancel", "speak", "braille"}

Remove(seq, i) == [j \in 1..(Len(seq) - 1) |-> IF j < i THEN seq[j] ELSE seq[j + 1]]

DoAnnounce(i, fault) ==
    /\ last = Idle
    /\ i \in 1..Len(callLater)
    /\ callLater[i].rem = 0
    /\ callLater' = Remove(callLater, i)
    /\ last' = [Obs("doAnnounce", fault, 0)
                  EXCEPT !.spoke = IF fault \in {"cancel", "speak"}
                                   THEN NoChar ELSE callLater[i].char,
                         !.braille = IF fault = "none"
                                     THEN <<callLater[i].char>> ELSE NoText,
                         !.beforeHost = callLater[i].hostAge >= 0,
                         !.idx = i]
    /\ UNCHANGED <<hostVars, cursorVars, pollVars, registered, callAfterQueue>>

(***************************************************************************)
(* terminate: unregisters the gesture filter and stops the poller.         *)
(***************************************************************************)
\* a terminate that cancels what is still scheduled
AnnouncementsCancelledAtTerminate(pending) == <<>>

\* the deferred announcements after terminate: it holds no handle on them
\* and stops none
AnnouncementsAfterTerminate(pending) == pending

Terminate ==
    /\ last = Idle
    /\ registered
    /\ registered' = FALSE
    /\ SetPoll(StopCompositionPolling(PollState))
    /\ callAfterQueue' = AnnouncementsAfterTerminate(callAfterQueue)
    /\ callLater' = AnnouncementsAfterTerminate(callLater)
    /\ last' = Obs("terminate", "none", 0)
    /\ UNCHANGED <<hostVars, cursorVars>>

\* the callback returns and the event loop takes the next event
Return ==
    /\ last # Idle
    /\ last' = Idle
    /\ UNCHANGED <<hostVars, cursorVars, pollVars, registered, callAfterQueue, callLater>>

Next ==
    \/ HostChange
    \/ HostFeedback
    \/ Advance
    \/ \E in \in GestureInputs : OnGesture(in[1], in[2])
    \/ \E t \in TimerIds, f \in PollFaults : PollTick(t, f)
    \/ AnnounceCharacter
    \/ \E i \in 1..MaxInFlight, f \in AnnounceFaults : DoAnnounce(i, f)
    \/ Terminate
    \/ Return

Spec == Init /\ [][Next]_vars

(***************************************************************************)
(* The event loop's scheduling: a callback returns; a queued wx.CallAfter  *)
(* call is run; time passes; the host's feedback comes within its latency; *)
(* a wx.CallLater timer that is due fires.                                 *)
(***************************************************************************)
Fairness ==
    /\ WF_vars(Return)
    /\ SF_vars(AnnounceCharacter)
    /\ SF_vars(HostFeedback)
    /\ SF_vars(Advance)
    /\ \A i \in 1..MaxInFlight : SF_vars(\E f \in AnnounceFaults : DoAnnounce(i, f))

FairSpec == Spec /\ Fairness

(***************************************************************************)
(* Properties.                                                             *)
(***************************************************************************)
\* the gesture filter has just run and reached moveCursor
StepRan == last.op = "gesture" /\ last.outcome \in {"moved", "boundary"}

\* C1: in every reachable state the tracked offset lies within the stored
\* composition content: 0 <= offset <= length(content).
C1_OffsetWithinContent ==
    0 <= cursorPos /\ cursorPos <= Len(compositionString)

\* a right step has just moved the offset onto the end of the content
C1_Witness ==
    /\ last.op = "gesture" /\ last.outcome = "moved" /\ last.dir = 1
    /\ cursorPos = Len(compositionString)
    /\ cursorPos = MaxLen

\* C2: the gesture filter returns True to the host for every key event,
\* whatever the key, the focus, the outcome of the move or the fault raised
\* inside it.
C2_AlwaysContinue ==
    last.op = "gesture" => last.ret = TRUE

\* the filter has returned True although a lookup raised inside it
C2_Witness ==
    /\ last.op = "gesture"
    /\ last.outcome \in GestureFaults \ {"none"}
    /\ last.ret = TRUE

\* the offset moveCursor starts from in a step: the length of the observed
\* text when the observed identity or content differs from the stored one,
\* the stored offset otherwise
OldOffset ==
    IF hostCompObj # lastCompObjId \/ hostCompString # compositionString
    THEN Len(hostCompString)
    ELSE cursorPos

\* C3: when moveCursor succeeds, the new offset equals the old offset plus
\* the direction (-1 or +1) and lies within [0, length(text)].
C3_MoveByExactlyOne ==
    [][ (last'.op = "gesture" /\ last'.outcome = "moved")
          => /\ last'.dir \in {-1, 1}
             /\ cursorPos' = OldOffset + last'.dir
             /\ 0 <= cursorPos' /\ cursorPos' <= Len(hostCompString)
             /\ compositionString' = hostCompString ]_vars

\* a left step has just moved the offset off the end of a text of full length
C3_Witness ==
    /\ last.op = "gesture" /\ last.outcome = "moved" /\ last.dir = -1
    /\ Len(compositionString) = MaxLen
    /\ cursorPos = MaxLen - 1

\* C4: a left step at offset 0 and a right step at offset length(text) fail
\* and leave the offset and the rest of the stored session as moveCursor
\* found them; the first right step on a newly observed composition is
\* always such a boundary.
C4_BoundaryLeavesState ==
    [][ (last'.op = "gesture" /\ last'.outcome \in {"moved", "boundary"})
          => /\ ( \/ (last'.dir = -1 /\ OldOffset = 0)
                  \/ (last'.dir = 1 /\ OldOffset = Len(hostCompString)) )
                  => /\ last'.outcome = "boundary"
                     /\ cursorPos' = OldOffset
                     /\ compositionString' = hostCompString
                     /\ lastCompObjId' = hostCompObj
                     /\ last'.reset = "no" => UNCHANGED cursorVars
             /\ (last'.reset # "no" /\ last'.dir = 1)
                  => (last'.outcome = "boundary" /\ cursorPos' = Len(hostCompString)) ]_vars

\* a left step has just been absorbed at offset 0 of an unchanged composition
C4_Witness ==
    /\ last.op = "gesture" /\ last.outcome = "boundary" /\ last.dir = -1
    /\ last.reset = "no"
    /\ cursorPos = 0

\* C5: an announcement is scheduled only by a step key event whose move
\* succeeded; a boundary step, a lookup miss and a non-step key schedule
\* nothing and emit nothing.
C5_OnlySuccessfulMovesAnnounce ==
    [][ /\ Len(callAfterQueue') > Len(callAfterQueue)
          => /\ last'.op = "gesture" /\ last'.outcome = "moved"
             /\ last'.dir \in {-1, 1}
             /\ hostFocus = "scintilla" /\ hostCompObj # NoComp /\ hostCompString # <<>>
             /\ cursorPos' = OldOffset + last'.dir
        /\ Len(callLater') > Len(callLater)
          => last'.op = "announce" /\ Len(callAfterQueue') < Len(callAfterQueue)
        /\ (last'.spoke # NoChar \/ (last'.braille # NoText /\ last'.op # "poll"))
          => last'.op = "doAnnounce" /\ Len(callLater') < Len(callLater)
        /\ (last'.op = "gesture" /\ last'.outcome \in {"boundary", "miss", "nonstep"})
          => /\ UNCHANGED <<callAfterQueue, callLater>>
             /\ last'.spoke = NoChar /\ last'.braille = NoText ]_vars

\* a right step has just been absorbed at the end of the text and nothing is
\* scheduled
C5_Witness ==
    /\ last.op = "gesture" /\ last.outcome = "boundary" /\ last.dir = 1
    /\ callAfterQueue = <<>> /\ callLater = <<>>
    /\ last.spoke = NoChar /\ last.braille = NoText

\* text[k] in the claim's 0-based indexing
At(text, k) == text[k + 1]

\* the character the claim names for a move in direction dir landing at
\* offset k of text: text[k] for a left step, text[k-1] for a right step
ClaimedChar(text, k, dir) == IF dir = -1 THEN At(text, k) ELSE At(text, k - 1)

\* the claimed character exists
ClaimedCharExists(text, k, dir) ==
    IF dir = -1 THEN 0 <= k /\ k < Len(text) ELSE 1 <= k /\ k <= Len(text)

\* C6: the character announced for a successful move landing at offset k in
\* text is text[k] for a left step and text[k-1] for a right step, and that
\* character always exists: the move captures (text, k, direction), the
\* queued callback resolves exactly that character into its timer, and the
\* timer speaks the character it holds.
C6_AnnouncedCharacter ==
    [][ /\ (last'.op = "gesture" /\ last'.outcome = "moved")
          => /\ ClaimedCharExists(hostCompString, cursorPos', last'.dir)
             /\ callAfterQueue' =
                  Append(callAfterQueue,
                         [compString |-> hostCompString, cursorPos |-> cursorPos',
                          direction |-> last'.dir, hostAge |-> 0])
        /\ last'.op = "announce"
          => LET c == Head(callAfterQueue) IN
             /\ ClaimedCharExists(c.compString, c.cursorPos, c.direction)
             /\ last'.outcome = "scheduled"
             /\ Len(callLater') = Len(callLater) + 1
             /\ callLater'[Len(callLater')].char =
                  ClaimedChar(c.compString, c.cursorPos, c.direction)
        /\ (last'.op = "doAnnounce" /\ last'.spoke # NoChar)
          => \E i \in 1..Len(callLater) :
                /\ callLater[i].char = last'.spoke
                /\ callLater' = Remove(callLater, i) ]_vars

\* the last character of a text of full length has just been spoken and sent
\* to the braille display
C6_Witness ==
    /\ last.op = "doAnnounce"
    /\ last.spoke = WordChar(MaxLen)
    /\ last.braille = <<WordChar(MaxLen)>>

\* C7: when a step event observes a composition whose identity differs from
\* the stored identity, the offset is reset to length(text) before the move
\* is applied, whatever the previous offset and stored content were: a left
\* step ends at length(text) - 1, a right step is absorbed at length(text).
C7_NewIdentityResets ==
    [][ (/\ last'.op = "gesture" /\ last'.outcome \in {"moved", "boundary"}
         /\ hostCompObj # lastCompObjId)
          => /\ lastCompObjId' = hostCompObj
             /\ compositionString' = hostCompString
             /\ last'.reset = "identity"
             /\ cursorPos' = IF last'.dir = -1 THEN Len(hostCompString) - 1
                                               ELSE Len(hostCompString)
             /\ last'.outcome = IF last'.dir = -1 THEN "moved" ELSE "boundary" ]_vars

\* a left step on a composition of new identity and full length has just
\* moved the offset to length(text) - 1
C7_Witness ==
    /\ last.op = "gesture" /\ last.outcome = "moved" /\ last.dir = -1
    /\ last.reset = "identity"
    /\ Len(compositionString) = MaxLen
    /\ cursorPos = MaxLen - 1

\* C8: the corrected announcement of a key event is spoken strictly after the
\* host's own default feedback for the same key event: with the host's
\* feedback at most 30 time units after the key event and the announcement
\* 150 time units after its deferred scheduling, no announcement is spoken
\* while the host's feedback for its key is still outstanding.
C8_AnnouncedAfterHostFeedback ==
    (last.op = "doAnnounce" /\ last.spoke # NoChar) => ~last.beforeHost

\* an announcement has just been spoken, the host's feedback being out
C8_Witness ==
    /\ last.op = "doAnnounce" /\ last.spoke # NoChar
    /\ ~last.beforeHost

\* C10: the poller never emits braille output on a tick where the current
\* composition content equals lastSeenContent; every braille emission of a
\* tick is the emission of a content that differed from lastSeenContent at
\* that tick.
C10_NoBrailleWhenUnchanged ==
    [][ last'.op = "poll"
          => /\ hostCompString = lastPolledComposition => last'.braille = NoText
             /\ last'.braille # NoText
                  => /\ hostCompString # lastPolledComposition
                     /\ last'.braille = hostCompString ]_vars

\* a tick has just seen the content it saw last and emitted nothing
C10_Witness ==
    /\ last.op = "poll" /\ last.outcome = "unchanged"
    /\ last.braille = NoText
    /\ hostCompString = lastPolledComposition
    /\ hostCompString # <<>>

QueuePayloads(q) ==
    [i \in 1..Len(q) |-> <<q[i].compString, q[i].cursorPos, q[i].direction>>]
TimerPayloads(t) == [i \in 1..Len(t) |-> t[i].char]

Qualifies ==
    hostFocus = "scintilla" /\ hostCompObj # NoComp /\ hostCompString # <<>>

\* a host call raised inside the tick
TickFaulted(obs) == obs.op = "poll" /\ obs.outcome \in {"lookup", "braille"}

\* C11: on a poll tick in which no host call raises, where the focus
\* qualifies and the composition content is non-empty and differs from
\* lastSeenContent, the poller emits exactly the full current content to the
\* braille display and sets lastSeenContent to that content; the poller
\* stays active with the next tick scheduled.
C11_ChangedContentIsBrailled ==
    [][ (/\ last'.op = "poll" /\ ~TickFaulted(last')
         /\ Qualifies
         /\ hostCompString # lastPolledComposition)
          => /\ last'.braille = hostCompString
             /\ lastPolledComposition' = hostCompString
             /\ isMonitoring' /\ pollPending' = {pollTimer'} ]_vars

\* a tick has just emitted a content of full length and recorded it
C11_Witness ==
    /\ last.op = "poll" /\ last.outcome = "emitted"
    /\ last.braille = hostCompString
    /\ lastPolledComposition = hostCompString
    /\ Len(hostCompString) = MaxLen

\* C12: a poll tick that finds the focus outside the target control family,
\* or the composition absent or empty, leaves the poller Idle with
\* lastSeenContent cleared and no tick scheduled; while no tick is scheduled
\* no poll tick runs, and a tick is scheduled again only by a key event that
\* qualifies.
C12_UnqualifiedTickStops ==
    [][ /\ (last'.op = "poll" /\ ~Qualifies)
          => /\ ~isMonitoring'
             /\ pollTimer' = NoTimer
             /\ lastPolledComposition' = <<>>
             /\ pollPending' = {}
        /\ pollPending = {} => last'.op # "poll"
        /\ (pollPending = {} /\ pollPending' # {})
          => /\ last'.op = "gesture"
             /\ registered
             /\ Qualifies
             /\ isMonitoring' ]_vars

\* a tick has just found the composition empty under a Scintilla focus and
\* stopped the poller
C12_Witness ==
    /\ last.op = "poll" /\ last.outcome = "stopped"
    /\ hostFocus = "scintilla" /\ hostCompObj # NoComp /\ hostCompString = <<>>
    /\ ~isMonitoring /\ pollTimer = NoTimer /\ pollPending = {}
    /\ lastPolledComposition = <<>>

\* the poller is Idle with no tick pending and lastSeenContent empty
IsStopped(p) ==
    /\ ~p.isMonitoring
    /\ p.pollTimer = NoTimer
    /\ p.pending = {}
    /\ p.lastPolled = <<>>

\* C13: stopping the poller is idempotent: from every reachable state of the
\* poller, one stop leaves it Idle with no tick pending and lastSeenContent
\* empty, a second stop right after it leaves that state as it is, and a
\* stop of a poller that is already Idle changes nothing.
C13_StopIsIdempotent ==
    LET once == StopCompositionPolling(PollState)
        twice == StopCompositionPolling(once)
    IN /\ IsStopped(once)
       /\ twice = once
       /\ ~isMonitoring => once = PollState

\* a tick has just stopped the poller on a focus outside the control family,
\* the plugin is still loaded, and one more stop leaves the poller as it is
C13_Witness ==
    /\ last.op = "poll" /\ last.outcome = "stopped"
    /\ hostFocus = "other"
    /\ registered
    /\ IsStopped(PollState)
    /\ StopCompositionPolling(PollState) = PollState

\* C14: after terminate no poll tick ever fires: in every state in which the
\* gesture filter is unregistered the poller is Idle, holds no timer, no poll
\* tick is pending and none has just run.
C14_NoTickAfterTerminate ==
    ~registered
      => /\ ~isMonitoring
         /\ pollTimer = NoTimer
         /\ pollPending = {}
         /\ last.op # "poll"

\* terminate has run while a composition was there to be polled, and the
\* event loop has gone on to run a deferred announcement
C14_Witness ==
    /\ ~registered
    /\ Qualifies
    /\ last.op = "doAnnounce"
    /\ pollPending = {} /\ ~isMonitoring

\* the step event observes an identity or a content that differs from the
\* stored one
SessionDiffers ==
    hostCompObj # lastCompObjId \/ hostCompString # compositionString

\* C15: a step event resets the stored session (identity, content,
\* offset = length(text)) exactly when the observed identity or the observed
\* content differs from the stored one, the move then starting from
\* length(text); when both match, the reconciliation changes nothing and the
\* move starts from the stored offset, so that offsets accumulate over
\* consecutive step events on an unchanged composition.
C15_ResetExactlyOnMismatch ==
    [][ StepRan'
          => /\ SessionDiffers
                  => /\ lastCompObjId' = hostCompObj
                     /\ compositionString' = hostCompString
                     /\ cursorPos' = IF last'.outcome = "moved"
                                     THEN Len(hostCompString) + last'.dir
                                     ELSE Len(hostCompString)
             /\ ~SessionDiffers
                  => /\ UNCHANGED <<lastCompObjId, compositionString>>
                     /\ cursorPos' = IF last'.outcome = "moved"
                                     THEN cursorPos + last'.dir
                                     ELSE cursorPos
             /\ (last'.reset # "no") <=> SessionDiffers ]_vars

\* a second left step on an unchanged composition of full length has just
\* moved the offset two places from the end
C15_Witness ==
    /\ last.op = "gesture" /\ last.outcome = "moved" /\ last.dir = -1
    /\ last.reset = "no"
    /\ Len(compositionString) = MaxLen
    /\ cursorPos = MaxLen - 2

\* C16: every key event, step key or not, whose first lookup does not raise
\* and which arrives while the focus qualifies and the poller is Idle leaves
\* the poller Active with one tick scheduled; a key event that does not
\* qualify leaves the poller as it is, and the poller goes from Idle to
\* Active by nothing but a qualifying key event.
C16_QualifyingKeyStartsPoller ==
    [][ /\ (/\ last'.op = "gesture" /\ last'.outcome # "lookup1"
            /\ Qualifies /\ ~isMonitoring)
          => /\ isMonitoring'
             /\ pollTimer' # NoTimer
             /\ pollPending' = {pollTimer'}
        /\ (last'.op = "gesture" /\ ~Qualifies) => UNCHANGED pollVars
        /\ (~isMonitoring /\ isMonitoring')
          => last'.op = "gesture" /\ Qualifies ]_vars

\* a key that is no step key has just started the poller: no tick has run
\* since, and no step event has ever reached the session
C16_Witness ==
    /\ last.op = "gesture" /\ last.outcome = "nonstep"
    /\ isMonitoring /\ pollTimer # NoTimer /\ pollPending = {pollTimer}
    /\ lastPolledComposition = <<>>
    /\ lastCompObjId = NoComp

\* C17: the navigation path and the poll path leave each other's state
\* alone: no poll tick, one that stops the poller or one in which a host call
\* raises included, changes the stored identity, the stored content or the
\* offset, and no key event changes lastSeenContent.
C17_PathsDoNotPerturb ==
    [][ /\ last'.op = "poll" => UNCHANGED cursorVars
        /\ last'.op = "gesture"
             => lastPolledComposition' = lastPolledComposition ]_vars

\* a tick has just stopped the poller, and the session of an earlier step
\* event is still stored with its offset
C17_Witness ==
    /\ last.op = "poll" /\ last.outcome = "stopped"
    /\ lastCompObjId # NoComp
    /\ Len(compositionString) = MaxLen
    /\ cursorPos = MaxLen - 1
    /\ lastPolledComposition = <<>>

\* a host call raised inside the callback that has just run
GestureFaulted(obs) ==
    obs.op = "gesture" /\ obs.outcome \in GestureFaults \ {"none"}
AnnounceFaulted(obs) ==
    obs.op = "doAnnounce" /\ obs.outcome \in AnnounceFaults \ {"none"}
Faulted(obs) == GestureFaulted(obs) \/ TickFaulted(obs) \/ AnnounceFaulted(obs)

C19_ActiveIffOneTickPending ==
    /\ Cardinality(pollPending) <= 1
    /\ isMonitoring <=> Cardinality(pollPending) = 1
    /\ ~isMonitoring <=> pollPending = {}
    /\ isMonitoring <=> pollTimer # NoTimer
    /\ isMonitoring => pollPending = {pollTimer}

\* a qualifying key event has just arrived while the poller was Active, a
\* tick having recorded the content since the poller was started: still one
\* tick is pending
C19_Witness ==
    /\ last.op = "gesture"
    /\ Qualifies
    /\ isMonitoring
    /\ lastPolledComposition = hostCompString
    /\ Cardinality(pollPending) = 1

AnnouncementsUntouched ==
    /\ QueuePayloads(callAfterQueue') = QueuePayloads(callAfterQueue)
    /\ TimerPayloads(callLater') = TimerPayloads(callLater)

====
